---- MODULE Spec2Model ----
(***************************************************************************)
(* Model of source/scpp/extra/DVTableChecks.cpp: the virtual-table slot    *)
(* counter getVirtualMethodCount, the measurement                          *)
(* getVirtualMethodCountSCPDriver built on it, and the member-pointer      *)
(* check doCheckMethodPoint on the classes A and B.                        *)
(*                                                                         *)
(* Memory is modelled as the words readable from vtable[0] onwards: the    *)
(* slots of the dynamic type's virtual table, followed by whatever the     *)
(* build placed after the table.  The loop of getVirtualMethodCount has no *)
(* bound, so a read at or past the end of the table is a read outside the  *)
(* table object; its outcome is whatever word lies there (zero or not), or *)
(* a fault once the mapped words are exhausted.                            *)
(***************************************************************************)
EXTENDS Integers, Sequences, FiniteSets, TLC

(* ------------------------------ bounds -------------------------------- *)

\* Width in bits of the modelled machine word ("unsigned long").
WordBits == 8
\* Largest number of ancestor levels of an instance's type.
MaxDepth == 2
\* Largest number of virtual operations each ancestor level declares.
MaxBaseline == 2
\* Largest number of virtual operations the concrete type declares itself.
MaxNew == 3
\* Largest number of inherited operations the concrete type overrides.
MaxOver == 1
\* Largest number of mapped words after the last slot of the table.
MaxTail == 2
\* Largest expected interface size handed to validate.
MaxExpected == 6
\* Largest pointer width (bytes) considered by the decoder.
MaxWidth == 8

Modulus == 2 ^ WordBits

(* -------------------------- program constants ------------------------- *)

inheritance_depth == 2
default_vmcount == 2

total_default_vmcount == inheritance_depth * default_vmcount

\* The classes A and B: two virtual operations each, B overrides none.
ClassA == [decl |-> 2, over |-> 0]
ClassB == [decl |-> 2, over |-> 0]
BChain == <<ClassA, ClassB>>

\* The values doCheckMethodPoint compares the member pointers of
\* B::vfunc1 .. B::vfunc4 with.
ExpectedRaw_Even == <<1, 9, 16, 25>>
ExpectedRaw == <<1, 9, 17, 25>>

\* The values doCheckMethodPoint returns on the first mismatch.
ReturnCode_Swapped == <<1, 9, 25, 17>>
ReturnCode == <<1, 9, 17, 25>>

NumChecks == Len(ExpectedRaw)

(* ---------------------- virtual table of a type ----------------------- *)

\* Address of the implementation that class number lvl of the chain
\* supplies for slot number slot (1-based); never zero.
FnAddr(lvl, slot) == lvl * 16 + slot

\* Virtual table of the last class of a single-inheritance chain (root
\* first): the inherited slots in their order, the overridden ones replaced
\* by the class's own implementation, then the newly declared operations in
\* declaration order.
VTable_NoInherit(c) ==
    IF c = <<>> THEN <<>>
    ELSE [j \in 1..c[Len(c)].decl |-> FnAddr(Len(c), j)]

RECURSIVE VTable(_)
VTable(c) ==
    IF c = <<>> THEN <<>>
    ELSE LET base == VTable(SubSeq(c, 1, Len(c) - 1))
             cls  == c[Len(c)]
             lvl  == Len(c)
         IN  [i \in 1..Len(base) |->
                 IF i <= cls.over THEN FnAddr(lvl, i) ELSE base[i]]
             \o [j \in 1..cls.decl |-> FnAddr(lvl, Len(base) + j)]

NumSlots(c) == Len(VTable(c))

(* ------------------------- the counting loop -------------------------- *)

\* "idx = 0"
IdxInit_One == 0 + 1
IdxInit == 0

\* "vtable[0][idx] != 0"
LoopCond(word) == word # 0

\* "idx++" on an unsigned long
IdxNext(i) == (i + 1) % Modulus

\* unsigned long - int, evaluated in unsigned long
UnsignedSub_Saturating(a, b) == IF a < b THEN 0 ELSE a - b
UnsignedSub(a, b) == (a - b) % Modulus

\* "return getVirtualMethodCount(scpDriver) - total_default_vmcount"
Attributable_DepthOnly(observed) == UnsignedSub(observed, inheritance_depth)
Attributable(observed) == UnsignedSub(observed, total_default_vmcount)

(* -------------------- decoder and validator (spec) -------------------- *)

NotAVirtualMemberPointer == -1

\* rawValue = index * pointerWidth + 1
Encode(i, w) == i * w + 1

\* index = (rawValue - 1) / pointerWidth, accepted only for an odd rawValue
\* with rawValue - 1 an exact, non-negative multiple of pointerWidth
DecodeSlot(rawValue, w) ==
    IF rawValue % 2 = 0 THEN NotAVirtualMemberPointer
    ELSE IF (rawValue - 1) % w # 0 THEN NotAVirtualMemberPointer
    ELSE IF (rawValue - 1) \div w < 0 THEN NotAVirtualMemberPointer
    ELSE (rawValue - 1) \div w

\* attributable = observed - chainDepth * baselinePerLevel;
\* returns attributable == expectedInterfaceSlots.  The subtraction is the
\* one getVirtualMethodCountSCPDriver performs.
Validate(observed, desc, expected) ==
    UnsignedSub(observed, desc.chainDepth * desc.baselinePerLevel) = expected

Descriptors == [chainDepth : 1..MaxDepth, baselinePerLevel : 0..MaxBaseline]
Expecteds == 0..MaxExpected
Widths == 1..MaxWidth

(* ------------------------------- inputs ------------------------------- *)

\* Words the build may have placed after the table.
TailWords == {0, Modulus - 1}

Tails == UNION {[1..n -> TailWords] : n \in 0..MaxTail}

\* A type with k new virtual operations, o overrides, below d ancestor
\* levels of b virtual operations each.
ChainOf(d, b, k, o) ==
    [i \in 1..d |-> [decl |-> b, over |-> 0]] \o <<[decl |-> k, over |-> o]>>

Chains ==
    {ChainOf(d, b, k, o) :
        d \in 0..MaxDepth, b \in 0..MaxBaseline, k \in 0..MaxNew,
        o \in 0..MaxOver}

WellFormed(c) == c[Len(c)].over <= NumSlots(SubSeq(c, 1, Len(c) - 1))

\* Values the first word of a member pointer may hold in a build.
RawVals == {-7, 1, 3, 9, 16, 17, 25}

NoRet == -1

(* ------------------------------- state -------------------------------- *)

VARIABLES
    fn,         \* entry point called: "count", "scpdriver", "methodpoint"
    chain,      \* class chain of the instance's dynamic type, root first
    instance,   \* the object: its hidden first word and its data members
    mem,        \* words readable from vtable[0] on: the table, then the tail
    pc,         \* "call", "scan", "check", "print", "done", "fault"
    idx,        \* loop counter of getVirtualMethodCount
    ret,        \* value returned by the entry point, NoRet before it returns
    raw,        \* first word of &B::vfunc1 .. &B::vfunc4 in this build
    step,       \* number of member pointers doCheckMethodPoint has read
    printed,    \* lines written by printf
    mutated,    \* whether the shared base was changed and the program rebuilt
    prevCount   \* slot count measured before the last change, NoRet if none

vars == <<fn, chain, instance, mem, pc, idx, ret, raw, step, printed,
          mutated, prevCount>>

VTableAddr == 1

NewInstance(c) == [vptr |-> VTableAddr, fields |-> [i \in 1..Len(c) |-> i]]

Init ==
    /\ fn \in {"count", "scpdriver", "methodpoint"}
    /\ IF fn = "methodpoint"
       THEN /\ chain = BChain
            /\ mem = VTable(BChain) \o <<0>>
            /\ raw \in [1..NumChecks -> RawVals]
       ELSE /\ chain \in {c \in Chains : WellFormed(c)}
            /\ \E t \in Tails : mem = VTable(chain) \o t
            /\ raw = [j \in 1..NumChecks |-> 0]
    /\ instance = NewInstance(chain)
    /\ pc = "call"
    /\ idx = 0
    /\ ret = NoRet
    /\ step = 0
    /\ printed = 0
    /\ mutated = FALSE
    /\ prevCount = NoRet

(* ------------------- getVirtualMethodCount<T>(T& t) ------------------- *)

\* The word vtable[0][i].
Slot(i) == mem[instance.vptr + i]

Mapped(i) == instance.vptr + i <= Len(mem)

\* A caller enters getVirtualMethodCount on the instance.
CallCount ==
    /\ pc = "call"
    /\ fn = "count"
    /\ pc' = "scan"
    /\ idx' = IdxInit
    /\ UNCHANGED <<fn, chain, instance, mem, ret, raw, step, printed,
                   mutated, prevCount>>

\* getVirtualMethodCountSCPDriver constructs its driver and enters
\* getVirtualMethodCount on it.
CallSCPDriver ==
    /\ pc = "call"
    /\ fn = "scpdriver"
    /\ pc' = "scan"
    /\ idx' = IdxInit
    /\ UNCHANGED <<fn, chain, instance, mem, ret, raw, step, printed,
                   mutated, prevCount>>

\* One iteration of the loop: the slot is not zero.
LoopStep ==
    /\ pc = "scan"
    /\ Mapped(idx)
    /\ LoopCond(Slot(idx))
    /\ idx' = IdxNext(idx)
    /\ UNCHANGED <<fn, chain, instance, mem, pc, ret, raw, step, printed,
                   mutated, prevCount>>

\* The loop meets a zero word and the function returns idx; the SCPDriver
\* measurement subtracts its baseline from it.
LoopExit ==
    /\ pc = "scan"
    /\ Mapped(idx)
    /\ ~LoopCond(Slot(idx))
    /\ ret' = IF fn = "scpdriver" THEN Attributable(idx) ELSE idx
    /\ pc' = "done"
    /\ UNCHANGED <<fn, chain, instance, mem, idx, raw, step, printed,
                   mutated, prevCount>>

\* The loop reads a word that is not mapped: the process faults.
LoopFault ==
    /\ pc = "scan"
    /\ ~Mapped(idx)
    /\ pc' = "fault"
    /\ UNCHANGED <<fn, chain, instance, mem, idx, ret, raw, step, printed,
                   mutated, prevCount>>

(* ------------------------- doCheckMethodPoint ------------------------- *)

CallMethodPoint ==
    /\ pc = "call"
    /\ fn = "methodpoint"
    /\ pc' = "check"
    /\ step' = 1
    /\ UNCHANGED <<fn, chain, instance, mem, idx, ret, raw, printed,
                   mutated, prevCount>>

\* "if ((long)reinterpret_cast<void *&>(bfuncN) != e) return e;"
CheckMismatch ==
    /\ pc = "check"
    /\ raw[step] # ExpectedRaw[step]
    /\ ret' = ReturnCode[step]
    /\ pc' = "done"
    /\ UNCHANGED <<fn, chain, instance, mem, idx, raw, step, printed,
                   mutated, prevCount>>

CheckMatch ==
    /\ pc = "check"
    /\ raw[step] = ExpectedRaw[step]
    /\ IF step < NumChecks
       THEN step' = step + 1 /\ pc' = "check"
       ELSE step' = step /\ pc' = "print"
    /\ UNCHANGED <<fn, chain, instance, mem, idx, ret, raw, printed,
                   mutated, prevCount>>

\* The four printf calls and "return 0".
PrintAndReturn ==
    /\ pc = "print"
    /\ printed' = NumChecks
    /\ ret' = 0
    /\ pc' = "done"
    /\ UNCHANGED <<fn, chain, instance, mem, idx, raw, step, mutated,
                   prevCount>>

(* ------------------ a change of the shared base class ----------------- *)

AddBaseMethod(c) ==
    [c EXCEPT ![1] = [decl |-> c[1].decl + 1, over |-> c[1].over]]

\* The root class of the chain gains one virtual operation, the program is
\* rebuilt (the words after the table are again the build's choice) and the
\* same measurement is taken again.
MutateBase ==
    /\ pc = "done"
    /\ fn # "methodpoint"
    /\ Len(chain) >= 2
    /\ ~mutated
    /\ chain' = AddBaseMethod(chain)
    /\ \E t \in Tails : mem' = VTable(chain') \o t
    /\ instance' = NewInstance(chain')
    /\ prevCount' = idx
    /\ mutated' = TRUE
    /\ idx' = 0
    /\ ret' = NoRet
    /\ pc' = "call"
    /\ UNCHANGED <<fn, raw, step, printed>>

Next ==
    \/ CallCount
    \/ CallSCPDriver
    \/ LoopStep
    \/ LoopExit
    \/ LoopFault
    \/ CallMethodPoint
    \/ CheckMismatch
    \/ CheckMatch
    \/ PrintAndReturn
    \/ MutateBase

Spec == Init /\ [][Next]_vars

(* ====================== properties of the program ===================== *)

Scanning == fn \in {"count", "scpdriver"}

\* The instance's type has at least one virtual operation.
Polymorphic == NumSlots(chain) >= 1

HasZero(m) == \E i \in 1..Len(m) : m[i] = 0

\* Zero-based index of the first zero word of m.
FirstZero(m) ==
    CHOOSE i \in 0..(Len(m) - 1) :
        m[i + 1] = 0 /\ \A j \in 1..i : m[j] # 0

\* The shape of the instance's type: ancestor levels, virtual operations per
\* ancestor level, operations the type declares itself.
ChainDepth(c) == Len(c) - 1
Baseline(c) == IF Len(c) > 1 THEN c[1].decl ELSE 0
NewOps(c) == c[Len(c)].decl

\* The word directly after the last slot of the table is zero.
Terminated ==
    /\ Len(mem) > NumSlots(chain)
    /\ mem[NumSlots(chain) + 1] = 0

\* C1: whenever the words at vtable[0] contain a zero, the scan never moves
\* past the first zero, every word before the counter is non-zero, the
\* value returned is exactly the index of the first zero (0 when the first
\* word is zero), and no step of the scan changes the instance or the table.
C1_CountIsFirstZero ==
    /\ [](Scanning /\ HasZero(mem) /\ pc \in {"scan", "done"} =>
            /\ idx <= FirstZero(mem)
            /\ \A j \in 0..(idx - 1) : Slot(j) # 0
            /\ pc = "done" =>
                 /\ idx = FirstZero(mem)
                 /\ Slot(idx) = 0
                 /\ fn = "count" => ret = idx)
    /\ [][pc = "scan" => mem' = mem /\ instance' = instance /\ chain' = chain]_vars

\* A scan returned at a first zero that has a non-zero word behind it.
C1_Witness ==
    /\ fn = "count" /\ pc = "done"
    /\ ret >= 1
    /\ Len(mem) >= ret + 2
    /\ mem[ret + 2] # 0

C3_ValidateAndMeasurement ==
    /\ (Scanning /\ pc = "done") =>
          \A desc \in Descriptors, e \in Expecteds :
              Validate(idx, desc, e) <=>
                  idx - desc.chainDepth * desc.baselinePerLevel = e
    /\ (fn = "scpdriver" /\ pc = "done") =>
          /\ ret = (idx - 2 * 2) % Modulus
          /\ idx >= 2 * 2 => ret = idx - 2 * 2
          /\ \A e \in Expecteds :
                 Validate(idx, [chainDepth |-> 2, baselinePerLevel |-> 2], e)
                     <=> ret = e

C3_Witness ==
    /\ fn = "scpdriver" /\ pc = "done"
    /\ idx = 6
    /\ ret = 2
    /\ Validate(idx, [chainDepth |-> 2, baselinePerLevel |-> 2], 2)

\* C4 as stated: decoding the encoding of a slot index gives the index
\* back, for every slot of the table and every pointer width.
C4_AllWidths ==
    \A w \in Widths : \A i \in 0..(NumSlots(chain) - 1) :
        DecodeSlot(Encode(i, w), w) = i

\* C4 amended: decoding the encoding of a slot index gives the index back,
\* for every slot of the table and every even pointer width; for width 8
\* the slots 0..3 of B encode to the values doCheckMethodPoint compares
\* with, so an accepted build's member pointers decode to slots 0, 1, 2, 3.
C4_DecodeLeftInverse ==
    /\ \A w \in {v \in Widths : v % 2 = 0} :
           \A i \in 0..(NumSlots(chain) - 1) :
               DecodeSlot(Encode(i, w), w) = i
    /\ \A j \in 1..NumSlots(BChain) : Encode(j - 1, 8) = ExpectedRaw[j]
    /\ (fn = "methodpoint" /\ pc = "done" /\ ret = 0) =>
           \A j \in 1..NumChecks : DecodeSlot(raw[j], 8) = j - 1

C4_Witness ==
    /\ fn = "methodpoint" /\ pc = "done" /\ ret = 0
    /\ DecodeSlot(raw[4], 8) = 3

\* C5: a raw value that is even, or whose predecessor is no exact multiple
\* of the pointer width, or whose quotient is negative, is declined by the
\* decoder with no slot index, for every pointer width; and
\* doCheckMethodPoint accepts no build in which a member pointer is even.
C5_RejectsEven ==
    /\ \A j \in 1..NumChecks : \A w \in Widths :
           (\/ raw[j] % 2 = 0
            \/ (raw[j] - 1) % w # 0
            \/ (raw[j] - 1) \div w < 0) =>
               /\ DecodeSlot(raw[j], w) = NotAVirtualMemberPointer
               /\ DecodeSlot(raw[j], w) \notin Nat
    /\ (fn = "methodpoint" /\ pc = "done"
            /\ \E j \in 1..NumChecks : raw[j] % 2 = 0) =>
           ret # 0 /\ printed = 0

C5_Witness ==
    /\ fn = "methodpoint" /\ pc = "done"
    /\ raw[1] = 1 /\ raw[2] = 9 /\ raw[3] = 16
    /\ ret = 17

\* C6: when no zero follows the last slot of the table, the scan ends in a
\* fatal error: it never returns a count and never reads past the table.
C6_NoSentinelIsFatal ==
    (Scanning /\ Polymorphic /\ ~Terminated) =>
        /\ pc # "done"
        /\ idx <= NumSlots(chain)

C9_UnsignedWrap ==
    (fn = "scpdriver" /\ pc = "done") =>
        /\ ret \in 0..(Modulus - 1)
        /\ idx < 4 => ret = idx - 4 + Modulus /\ ret >= Modulus - 4 /\ ret > idx
        /\ idx >= 4 => ret = idx - 4

C9_Witness ==
    /\ fn = "scpdriver" /\ pc = "done"
    /\ idx = 3
    /\ ret = Modulus - 1

\* C10: doCheckMethodPoint returns 0 exactly when the four member pointers
\* are 1, 9, 17, 25 and then prints its four lines; otherwise it returns
\* the expected value of the first mismatching one, has read no later one
\* and has printed nothing.
C10_MethodPointResult ==
    (fn = "methodpoint" /\ pc = "done") =>
        /\ ret \in {0, 1, 9, 17, 25}
        /\ ret = 0 <=> raw = <<1, 9, 17, 25>>
        /\ ret = 0 => printed = 4
        /\ ret # 0 =>
             /\ printed = 0
             /\ ret = <<1, 9, 17, 25>>[step]
             /\ raw[step] # <<1, 9, 17, 25>>[step]
             /\ \A j \in 1..(step - 1) : raw[j] = <<1, 9, 17, 25>>[j]

C10_Witness ==
    /\ fn = "methodpoint" /\ pc = "done"
    /\ ret = 17 /\ step = 3
    /\ raw[4] # 25
    /\ printed = 0

====
